---------------------------- MODULE Spec2Model ----------------------------
(***************************************************************************)
(* Mock IMAP/SMTP server (mock-email-server/mock_server.py).               *)
(*                                                                         *)
(* Every accepted connection runs handle_client in a thread of its own.    *)
(* A session is a slot: "idle" (not yet accepted), "greet" (thread started,*)
(* greeting not yet sent), "loop" (blocked in recv) or "closed".  One      *)
(* action is one iteration of the handler's while loop: one recv and       *)
(* everything the handler does with what it read.  The only object two     *)
(* threads share is the server's list, and a thread touches it with one    *)
(* list operation per iteration, so an iteration is one atomic step.       *)
(*                                                                         *)
(* What a client sends is text, a sequence of one-character strings, so    *)
(* that strip, split, upper, startswith and "in" are computed as Python    *)
(* computes them.  What the server sends and stores are strings.           *)
(***************************************************************************)
EXTENDS Integers, Sequences, FiniteSets, TLC

(***************************************************************************)
(* Bounds of the model.                                                    *)
(***************************************************************************)
\* Lines a client sends on one connection, when it sends an envelope.
MaxLines == 7
\* Lines a client sends on one connection, when it sends any line.
MaxLinesWide == 4
\* Lines each client sends when two connections run side by side.
MaxLinesPair == 5
\* Lines each client sends when an IMAP and an SMTP connection run side by side.
MaxLinesBoth == 2
\* Lines each client sends when two connections to one server run side by side.
MaxLinesTwo == 3
\* Lines each client sends when mail is submitted while the mailbox is read.
MaxLinesMixed == 3
\* Reads a handler makes on one connection, when a read may hold two lines.
MaxReads == 4

(***************************************************************************)
(* Python's str operations, on text.                                       *)
(***************************************************************************)
RECURSIVE Join(_)
Join(s) ==
    IF s = <<>> THEN "" ELSE s[1] \o Join(Tail(s))

LowerLetters ==
    <<"a","b","c","d","e","f","g","h","i","j","k","l","m",
      "n","o","p","q","r","s","t","u","v","w","x","y","z">>

UpperLetters ==
    <<"A","B","C","D","E","F","G","H","I","J","K","L","M",
      "N","O","P","Q","R","S","T","U","V","W","X","Y","Z">>

UpperChar(c) ==
    IF \E i \in 1..26 : LowerLetters[i] = c
    THEN UpperLetters[CHOOSE i \in 1..26 : LowerLetters[i] = c]
    ELSE c

\* str.upper()
Upper(s) ==
    [i \in 1..Len(s) |-> UpperChar(s[i])]

\* str.isspace() of one character
IsSpace(c) ==
    c \in {" ", "\t", "\n", "\r", "\f"}

RECURSIVE LStrip(_)
LStrip(s) ==
    IF s # <<>> /\ IsSpace(s[1]) THEN LStrip(Tail(s)) ELSE s

RECURSIVE RStrip(_)
RStrip(s) ==
    IF s # <<>> /\ IsSpace(s[Len(s)]) THEN RStrip(SubSeq(s, 1, Len(s) - 1)) ELSE s

\* str.strip()
Strip(s) ==
    RStrip(LStrip(s))

\* The index of the first c in s, 0 when there is none.
IndexOf(s, c) ==
    IF \E i \in 1..Len(s) : s[i] = c
    THEN CHOOSE i \in 1..Len(s) : s[i] = c /\ \A j \in 1..(i - 1) : s[j] # c
    ELSE 0

\* str.split(sep, maxsplit), sep one character
RECURSIVE Split(_, _, _)
Split(s, sep, maxsplit) ==
    IF maxsplit = 0 \/ IndexOf(s, sep) = 0
    THEN <<s>>
    ELSE <<SubSeq(s, 1, IndexOf(s, sep) - 1)>>
         \o Split(SubSeq(s, IndexOf(s, sep) + 1, Len(s)), sep, maxsplit - 1)

\* str.startswith(p), p a string
StartsWith(s, p) ==
    Len(s) >= Len(p) /\ Join(SubSeq(s, 1, Len(p))) = p

\* p in s, p a string
Contains(s, p) ==
    \E i \in 1..(Len(s) - Len(p) + 1) : Join(SubSeq(s, i, i + Len(p) - 1)) = p

\* Python's None, and a value that is not None.
None == <<>>

Some(x) == <<x>>

(***************************************************************************)
(* The pre-populated emails.                                               *)
(***************************************************************************)
TEST_EMAILS ==
    << [id |-> 1, from |-> "alice@example.com", to |-> "test@example.com",
        subject |-> "Welcome to Frame Email Client",
        date |-> "Mon, 15 Jan 2024 10:30:00 +0000",
        body |-> "Hello! This is a test email to help you get started with Frame Email Client.",
        thread_id |-> "thread-1"],
       [id |-> 2, from |-> "bob@example.com", to |-> "test@example.com",
        subject |-> "Re: Welcome to Frame Email Client",
        date |-> "Mon, 15 Jan 2024 11:00:00 +0000",
        body |-> "Thanks for the welcome! This looks great.",
        thread_id |-> "thread-1"],
       [id |-> 3, from |-> "charlie@example.com", to |-> "test@example.com",
        subject |-> "Meeting Tomorrow",
        date |-> "Mon, 15 Jan 2024 14:00:00 +0000",
        body |-> "Don't forget about our meeting tomorrow at 2 PM.",
        thread_id |-> "thread-2"],
       [id |-> 4, from |-> "alice@example.com", to |-> "test@example.com",
        subject |-> "Re: Meeting Tomorrow",
        date |-> "Mon, 15 Jan 2024 15:30:00 +0000",
        body |-> "I'll be there!",
        thread_id |-> "thread-2"],
       [id |-> 5, from |-> "dave@example.com", to |-> "test@example.com",
        subject |-> "Project Update",
        date |-> "Tue, 16 Jan 2024 09:00:00 +0000",
        body |-> "Here's the latest update on the project. Everything is on track.",
        thread_id |-> "thread-3"] >>

(***************************************************************************)
(* The state.                                                              *)
(***************************************************************************)
VARIABLES
    pc,               \* each session's position: idle, greet, loop, closed
    emails,           \* MockIMAPServer.emails
    next_id,          \* MockIMAPServer.next_id
    authenticated,    \* handle_client's local, per IMAP session
    selected_folder,  \* handle_client's local, per IMAP session
    received_emails,  \* MockSMTPServer.received_emails
    mail_from,        \* handle_client's local, per SMTP session
    rcpt_to,          \* handle_client's local, per SMTP session
    data_mode,        \* handle_client's local, per SMTP session
    email_data,       \* handle_client's local, per SMTP session
    lastData,         \* what the session's last recv returned
    lastOut,          \* what the session sent in its last step, one string per send
    appended,         \* the records the session's last step appended to received_emails
    first_out,        \* the first string the session ever sent
    greetings,        \* how many times the session sent its greeting
    closed_by,        \* why the session left its loop
    nlines,           \* how many lines the session has read on its open connection
    client,           \* the envelope the SMTP client has sent so far, as it sent it
    submitted,        \* the envelopes the SMTP client has ended with a terminator
    issued            \* which of LOGIN and SELECT the IMAP client has sent

vars ==
    <<pc, emails, next_id, authenticated, selected_folder, received_emails,
      mail_from, rcpt_to, data_mode, email_data, lastData, lastOut,
      appended, first_out, greetings, closed_by, nlines, client, submitted,
      issued>>

\* The connections the IMAP acceptor may accept.
ISess == {"i1", "i2"}

\* The connections the SMTP acceptor may accept.
SSess == {"s1", "s2"}

Sess == ISess \cup SSess

\* recv has returned nothing yet.
NoRead == <<"<none>">>

\* recv raised.
RecvRaised == <<"<error>">>


(***************************************************************************)
(* What the clients send.  Each is what one recv returns.                  *)
(***************************************************************************)
I_CAPABILITY == <<"a","1"," ","C","A","P","A","B","I","L","I","T","Y","\r","\n">>
I_CAPABILITY_LC == <<"b","2"," ","c","a","p","a","b","i","l","i","t","y","\r","\n">>
I_LOGIN == <<"a","1"," ","L","O","G","I","N"," ","u"," ","p","\r","\n">>
I_LIST == <<"a","1"," ","L","I","S","T"," ","\"","\""," ","\"","*","\"","\r","\n">>
I_LIST_LC == <<"b","2"," ","l","i","s","t","\r","\n">>
I_SELECT == <<"a","1"," ","S","E","L","E","C","T"," ","I","N","B","O","X","\r","\n">>
I_FETCH_BODY == <<"a","1"," ","F","E","T","C","H"," ","1",":","*"," ","(","b","o","d","y","[","]",")","\r","\n">>
I_FETCH_FLAGS == <<"a","1"," ","F","E","T","C","H"," ","1"," ","F","L","A","G","S","\r","\n">>
I_FETCH_RFC822 == <<"b","2"," ","f","e","t","c","h"," ","1"," ","(","r","f","c","8","2","2"," ","f","l","a","g","s",")","\r","\n">>
I_FETCH_NOARGS == <<"a","1"," ","F","E","T","C","H","\r","\n">>
I_SEARCH == <<"a","1"," ","S","E","A","R","C","H"," ","F","R","O","M"," ","x","\r","\n">>
I_SEARCH_BARE == <<"b","2"," ","s","e","a","r","c","h","\r","\n">>
I_LOGOUT == <<"a","1"," ","L","O","G","O","U","T","\r","\n">>
I_NOOP == <<"b","2"," ","N","O","O","P","\r","\n">>
I_ONE_TOKEN == <<"a","1","\r","\n">>
I_BLANK == <<"\r","\n">>
I_TWO_SPACES == <<"a","1"," "," ","L","O","G","I","N"," ","u"," ","p","\r","\n">>
I_TAB == <<"a","1","\t","N","O","O","P","\r","\n">>

S_HELO == <<"H","E","L","O"," ","x","\r","\n">>
S_MAIL_A == <<"M","A","I","L"," ","F","R","O","M",":","<","a","@","x",">","\r","\n">>
S_MAIL_D == <<"m","a","i","l"," ","f","r","o","m",":"," ","<","d","@","z",">","\r","\n">>
S_RCPT_B == <<"R","C","P","T"," ","T","O",":","<","b","@","y",">","\r","\n">>
S_RCPT_C == <<"R","C","P","T"," ","T","O",":","<","c","@","y",">","\r","\n">>
S_MAIL_NOCOLON == <<"M","A","I","L"," ","F","R","O","M","\r","\n">>
S_RCPT_NOCOLON == <<"r","c","p","t"," ","t","o"," ","<","b","@","y",">","\r","\n">>
S_DATA == <<"D","A","T","A","\r","\n">>
S_DATA_ARG == <<"D","A","T","A"," ","x","\r","\n">>
S_QUIT == <<"Q","U","I","T","\r","\n">>
S_NOOP == <<"N","O","O","P","\r","\n">>
S_BODY_1 == <<"H","i","\r","\n">>
S_BODY_2 == <<" ","y","o"," ","\r","\n">>
S_BLANK == <<"\r","\n">>
S_DOT == <<".","\r","\n">>
S_DOT_PADDED == <<" ",".","\r","\n">>
S_DOTDOT == <<".",".","\r","\n">>

\* recv returning '': the client has closed its end.
EOF == <<>>

ImapReads ==
    {I_CAPABILITY, I_CAPABILITY_LC, I_LOGIN, I_LIST, I_LIST_LC, I_SELECT,
     I_FETCH_BODY, I_FETCH_FLAGS, I_FETCH_RFC822, I_FETCH_NOARGS, I_SEARCH,
     I_SEARCH_BARE,
     I_LOGOUT, I_NOOP,
     I_ONE_TOKEN, I_BLANK, I_TWO_SPACES, I_TAB, EOF}

\* Any line, sent before DATA.
SmtpCommands ==
    {S_HELO, S_MAIL_A, S_MAIL_D, S_RCPT_B, S_RCPT_C, S_MAIL_NOCOLON,
     S_RCPT_NOCOLON, S_DATA, S_DATA_ARG, S_QUIT, S_NOOP, S_BLANK, S_DOT, EOF}

\* Any line, sent after DATA.
SmtpBodyLines ==
    {S_BODY_1, S_BODY_2, S_BLANK, S_QUIT, S_DATA, S_DOTDOT, S_DOT, S_DOT_PADDED, EOF}

\* The lines of an envelope, sent before DATA and after it.
EnvelopeCommands ==
    {S_MAIL_A, S_RCPT_B, S_RCPT_C, S_DATA, S_QUIT, EOF}

EnvelopeBodyLines ==
    {S_BODY_1, S_BODY_2, S_DOT}

\* Two clients, each with an envelope of its own.
PairCommands(s) ==
    IF s = "s1" THEN {S_MAIL_A, S_RCPT_B, S_DATA, EOF}
    ELSE {S_MAIL_D, S_RCPT_C, S_DATA, EOF}

PairBodyLines(s) ==
    IF s = "s1" THEN {S_BODY_1, S_DOT} ELSE {S_BODY_2, S_DOT}

\* A client reading the mailbox, and a client submitting mail meanwhile.
MixedImapReads ==
    {I_LOGIN, I_SELECT, I_SEARCH, I_FETCH_BODY, EOF}

MixedCommands ==
    {S_MAIL_A, S_RCPT_B, S_DATA, EOF}

MixedBodyLines ==
    {S_BODY_1, S_DOT}

\* Two lines that one recv returns together.
I_LOGIN_SELECT == I_LOGIN \o I_SELECT
S_MAIL_RCPT == S_MAIL_A \o S_RCPT_B
S_BODY_DOT == S_BODY_1 \o S_DOT

\* Reads of one line and of two, of an IMAP client.
GroupedImapReads ==
    {I_LOGIN, I_SELECT, I_LOGIN_SELECT, I_FETCH_FLAGS, EOF}

\* Reads of one line and of two, of an SMTP client, before DATA and after it.
GroupedCommands ==
    {S_MAIL_A, S_RCPT_B, S_MAIL_RCPT, S_DATA, EOF}

GroupedBodyLines ==
    {S_BODY_1, S_DOT, S_BODY_DOT, EOF}

AllSmtpReads ==
    SmtpCommands \cup SmtpBodyLines \cup GroupedCommands \cup GroupedBodyLines

\* Two IMAP clients, each sending any of these lines.
PairImapReads ==
    {I_LOGIN, I_SELECT, I_FETCH_FLAGS, I_NOOP, I_LOGOUT, EOF}

(***************************************************************************)
(* MockIMAPServer.                                                         *)
(***************************************************************************)
IMAP_GREETING == "* OK Mock IMAP Server Ready\r\n"

\* format_email
format_email(email) ==
    "From: " \o email.from \o "\r\n"
    \o "To: " \o email.to \o "\r\n"
    \o "Subject: " \o email.subject \o "\r\n"
    \o "Date: " \o email.date \o "\r\n"
    \o "Message-ID: <" \o ToString(email.id) \o "@mock.example.com>\r\n"
    \o (IF "thread_id" \in DOMAIN email
        THEN "In-Reply-To: <" \o email.thread_id \o "@mock.example.com>\r\n"
        ELSE "")
    \o "\r\n"
    \o email.body
    \o "\r\n"

CapabilitySends(tag) ==
    << "* CAPABILITY IMAP4rev1 AUTH=PLAIN\r\n" \o tag \o " OK CAPABILITY completed\r\n" >>

LoginSends(tag) ==
    << tag \o " OK LOGIN completed\r\n" >>

ListSends_TwoFolders(tag) ==
    << "* LIST (\\HasNoChildren) \"/\" \"INBOX\"\r\n"
       \o "* LIST (\\HasNoChildren) \"/\" \"Sent\"\r\n"
       \o tag \o " OK LIST completed\r\n" >>

ListSends(tag) ==
    << "* LIST (\\HasNoChildren) \"/\" \"INBOX\"\r\n"
       \o "* LIST (\\HasNoChildren) \"/\" \"Sent\"\r\n"
       \o "* LIST (\\HasNoChildren) \"/\" \"Drafts\"\r\n"
       \o tag \o " OK LIST completed\r\n" >>

\* SELECT counting the mail submitted over SMTP as well.
SelectSends_CountsSubmitted(tag, ems, nid) ==
    << "* " \o ToString(Len(ems) + Len(received_emails)) \o " EXISTS\r\n"
       \o "* " \o ToString(Len(ems) + Len(received_emails)) \o " RECENT\r\n"
       \o "* OK [UIDVALIDITY 1] UIDs valid\r\n"
       \o "* OK [UIDNEXT " \o ToString(nid + Len(received_emails)) \o "] Predicted next UID\r\n"
       \o tag \o " OK [READ-WRITE] SELECT completed\r\n" >>

SelectSends(tag, ems, nid) ==
    << "* " \o ToString(Len(ems)) \o " EXISTS\r\n"
       \o "* " \o ToString(Len(ems)) \o " RECENT\r\n"
       \o "* OK [UIDVALIDITY 1] UIDs valid\r\n"
       \o "* OK [UIDNEXT " \o ToString(nid) \o "] Predicted next UID\r\n"
       \o tag \o " OK [READ-WRITE] SELECT completed\r\n" >>

\* The condition under which FETCH answers, with the folder check forgotten.
FetchAllowed_AuthOnly(auth, folder) ==
    auth

\* FETCH answering once either of LOGIN and SELECT was sent.
FetchAllowed_Either(auth, folder) ==
    auth \/ folder # None

\* if authenticated and selected_folder
FetchAllowed(auth, folder) ==
    auth /\ folder # None /\ folder # Some("")

\* The FETCH line declaring the length of the message's body only.
FetchLine_BodyLength(email, args) ==
    "* " \o ToString(email.id) \o " FETCH ("
    \o (IF Contains(Upper(args), "BODY") \/ Contains(Upper(args), "RFC822")
        THEN "RFC822 {" \o ToString(Len(email.body)) \o "}\r\n"
             \o format_email(email)
        ELSE "")
    \o (IF Contains(Upper(args), "FLAGS") THEN "FLAGS (\\Seen) " ELSE "")
    \o ")\r\n"

\* One message's untagged FETCH line.
FetchLine(email, args) ==
    "* " \o ToString(email.id) \o " FETCH ("
    \o (IF Contains(Upper(args), "BODY") \/ Contains(Upper(args), "RFC822")
        THEN "RFC822 {" \o ToString(Len(format_email(email))) \o "}\r\n"
             \o format_email(email)
        ELSE "")
    \o (IF Contains(Upper(args), "FLAGS") THEN "FLAGS (\\Seen) " ELSE "")
    \o ")\r\n"

FetchSends(tag, args, ems) ==
    [i \in 1..Len(ems) |-> FetchLine(ems[i], args)]
    \o << tag \o " OK FETCH completed\r\n" >>

\* " ".join(str(e['id']) for e in self.emails)
RECURSIVE JoinIds(_)
JoinIds(ems) ==
    IF ems = <<>> THEN ""
    ELSE IF Len(ems) = 1 THEN ToString(ems[1].id)
    ELSE ToString(ems[1].id) \o " " \o JoinIds(Tail(ems))

\* SEARCH answering with the ids of all messages but the first.
SearchSends_SkipFirst(tag, ems) ==
    << "* SEARCH " \o JoinIds(Tail(ems)) \o "\r\n"
       \o tag \o " OK SEARCH completed\r\n" >>

SearchSends(tag, ems) ==
    << "* SEARCH " \o JoinIds(ems) \o "\r\n"
       \o tag \o " OK SEARCH completed\r\n" >>

LogoutSends(tag) ==
    << "* BYE Mock IMAP Server logging out\r\n" \o tag \o " OK LOGOUT completed\r\n" >>

\* The BAD line without the client's tag.
BadSends_Untagged(tag) ==
    << "* BAD Command not recognized\r\n" >>

BadSends(tag) ==
    << tag \o " BAD Command not recognized\r\n" >>

\* LOGOUT answered without leaving the loop.
ImapBreaks_Never(command) ==
    FALSE

\* The commands after whose answer the loop is left.
ImapBreaks(command) ==
    command = "LOGOUT"

\* parts, tag, command and args of one read:
\*   parts = data.strip().split(' ', 2); tag = parts[0];
\*   command = parts[1].upper(); args = parts[2] if len(parts) > 2 else ""
ImapParse(data) ==
    LET parts == Split(Strip(data), " ", 2)
    IN  [nparts |-> Len(parts),
         tag |-> Join(parts[1]),
         command |-> IF Len(parts) < 2 THEN "" ELSE Join(Upper(parts[2])),
         args |-> IF Len(parts) > 2 THEN parts[3] ELSE <<>>]

\* ImapParse of every text a client sends, computed once.
ImapParsed ==
    [data \in ImapReads \cup GroupedImapReads |-> ImapParse(data)]

(***************************************************************************)
(* One iteration of MockIMAPServer.handle_client's loop on what recv       *)
(* returned: the locals after it, what it sends (one string per send, in   *)
(* order), and whether it leaves the loop.                                 *)
(***************************************************************************)
ImapIteration(auth, folder, data, ems, nid) ==
    LET same(sends, brk) ==
            [authenticated |-> auth, selected_folder |-> folder,
             sends |-> sends, brk |-> brk]
    IN  IF data = <<>> THEN same(<<>>, TRUE)
        ELSE IF ImapParsed[data].nparts < 2 THEN same(<<>>, FALSE)
        ELSE LET tag == ImapParsed[data].tag
                 command == ImapParsed[data].command
             IN  CASE command = "CAPABILITY" -> same(CapabilitySends(tag), FALSE)
                   [] command = "LOGIN" ->
                        [authenticated |-> TRUE, selected_folder |-> folder,
                         sends |-> LoginSends(tag), brk |-> FALSE]
                   [] command = "LIST" -> same(ListSends(tag), FALSE)
                   [] command = "SELECT" ->
                        [authenticated |-> auth, selected_folder |-> Some("INBOX"),
                         sends |-> SelectSends(tag, ems, nid), brk |-> FALSE]
                   [] command = "FETCH" ->
                        IF FetchAllowed(auth, folder)
                        THEN same(FetchSends(tag, ImapParsed[data].args, ems), FALSE)
                        ELSE same(<<>>, FALSE)
                   [] command = "SEARCH" -> same(SearchSends(tag, ems), FALSE)
                   [] command = "LOGOUT" -> same(LogoutSends(tag), ImapBreaks(command))
                   [] OTHER -> same(BadSends(tag), FALSE)

(***************************************************************************)
(* MockSMTPServer.                                                         *)
(***************************************************************************)
SMTP_GREETING == "220 Mock SMTP Server Ready\r\n"

\* datetime.now().isoformat(): the time of the append.  Nothing reads it.
NOW == "<datetime.now().isoformat()>"

\* A blank line ending the message as well.
IsTerminator_OrBlank(data) ==
    Join(Strip(data)) \in {".", ""}

\* data.strip() == "."
IsTerminator(data) ==
    Join(Strip(data)) = "."

\* command.split(":", 1)
ColonParts(command) ==
    Split(command, ":", 1)

\* command.split(":", 1)[1] raises IndexError
NoColon(command) ==
    Len(ColonParts(command)) < 2

\* command.split(":", 1)[1].strip()
AfterColon(command) ==
    Join(Strip(ColonParts(command)[2]))

\* "".join(email_data)
RECURSIVE Concat(_)
Concat(lines) ==
    IF lines = <<>> THEN "" ELSE lines[1] \o Concat(Tail(lines))

\* The dict appended to received_emails, but for its timestamp.
Envelope(mf, rt, ed) ==
    [from |-> mf, to |-> rt, data |-> Concat(ed)]

\* The branch of the if/elif chain that a command takes.
SmtpVerb(command) ==
    IF StartsWith(command, "HELO") \/ StartsWith(command, "EHLO") THEN "HELO"
    ELSE IF StartsWith(command, "MAIL FROM") THEN "MAIL FROM"
    ELSE IF StartsWith(command, "RCPT TO") THEN "RCPT TO"
    ELSE IF Join(command) = "DATA" THEN "DATA"
    ELSE IF Join(command) = "QUIT" THEN "QUIT"
    ELSE "unrecognized"

\* What the handler computes from one read: command = data.strip().upper(),
\* its branch, and the address it takes from the command.
SmtpParse(data) ==
    LET command == Upper(Strip(data))
    IN  [terminator |-> IsTerminator(data),
         text |-> Join(data),
         verb |-> SmtpVerb(command),
         nocolon |-> NoColon(command),
         addr |-> IF NoColon(command) THEN "" ELSE AfterColon(command),
         sent |-> IF NoColon(command) THEN "" ELSE AfterColon(Strip(data))]

\* SmtpParse of every text a client sends, computed once.
SmtpParsed ==
    [data \in AllSmtpReads |-> SmtpParse(data)]

\* The locals after a terminator, with the recipients kept.
AfterTerminator_KeepsRecipients(mf, rt, ed) ==
    [mail_from |-> None, rcpt_to |-> rt, data_mode |-> FALSE, email_data |-> <<>>]

\* The locals after a terminator:
\*   data_mode = False; email_data = []; mail_from = None; rcpt_to = []
AfterTerminator(mf, rt, ed) ==
    [mail_from |-> None, rcpt_to |-> <<>>, data_mode |-> FALSE, email_data |-> <<>>]

(***************************************************************************)
(* One iteration of MockSMTPServer.handle_client's loop on what recv       *)
(* returned: the locals after it, the locals at its send, what it sends,   *)
(* the envelope it appends to received_emails (before its send), whether   *)
(* it leaves the loop, and whether it raises before sending anything.      *)
(***************************************************************************)
SmtpIteration(mf, rt, dm, ed, data) ==
    LET locals(a, b, c, d) ==
            [mail_from |-> a, rcpt_to |-> b, data_mode |-> c, email_data |-> d]
        now == locals(mf, rt, dm, ed)
        step(after, atSend, sends, record, brk, raises) ==
            [after |-> after, atSend |-> atSend, sends |-> sends,
             record |-> record, brk |-> brk, raises |-> raises]
        p == SmtpParsed[data]
    IN  IF data = <<>> THEN step(now, now, <<>>, <<>>, TRUE, FALSE)
        ELSE IF dm THEN
            IF p.terminator
            THEN step(AfterTerminator(mf, rt, ed), now,
                      << "250 OK: Message accepted\r\n" >>,
                      << Envelope(mf, rt, ed) >>, FALSE, FALSE)
            ELSE step(locals(mf, rt, dm, Append(ed, p.text)),
                      locals(mf, rt, dm, Append(ed, p.text)),
                      <<>>, <<>>, FALSE, FALSE)
        ELSE CASE p.verb = "HELO" ->
                    step(now, now, << "250 Mock SMTP Server\r\n" >>, <<>>, FALSE, FALSE)
               [] p.verb = "MAIL FROM" ->
                    IF p.nocolon
                    THEN step(now, now, <<>>, <<>>, FALSE, TRUE)
                    ELSE step(locals(Some(p.addr), rt, dm, ed),
                              locals(Some(p.addr), rt, dm, ed),
                              << "250 OK\r\n" >>, <<>>, FALSE, FALSE)
               [] p.verb = "RCPT TO" ->
                    IF p.nocolon
                    THEN step(now, now, <<>>, <<>>, FALSE, TRUE)
                    ELSE step(locals(mf, Append(rt, p.addr), dm, ed),
                              locals(mf, Append(rt, p.addr), dm, ed),
                              << "250 OK\r\n" >>, <<>>, FALSE, FALSE)
               [] p.verb = "DATA" ->
                    step(locals(mf, rt, TRUE, ed), now,
                         << "354 Start mail input; end with <CRLF>.<CRLF>\r\n" >>,
                         <<>>, FALSE, FALSE)
               [] p.verb = "QUIT" ->
                    step(now, now, << "221 Bye\r\n" >>, <<>>, TRUE, FALSE)
               [] OTHER ->
                    step(now, now, << "500 Command not recognized\r\n" >>,
                         <<>>, FALSE, FALSE)

(***************************************************************************)
(* The envelope as the client sent it: the text after the first colon of   *)
(* its MAIL FROM and RCPT TO lines, trimmed, and its body lines.           *)
(***************************************************************************)
NoEnvelope ==
    [from |-> None, to |-> <<>>, body |-> <<>>]

ClientEnvelope(env, dm, data) ==
    LET p == SmtpParsed[data]
    IN  IF data = <<>> THEN env
        ELSE IF dm THEN
            IF p.terminator THEN NoEnvelope
            ELSE [env EXCEPT !.body = Append(@, p.text)]
        ELSE IF p.verb = "MAIL FROM" /\ ~p.nocolon
        THEN [env EXCEPT !.from = Some(p.sent)]
        ELSE IF p.verb = "RCPT TO" /\ ~p.nocolon
        THEN [env EXCEPT !.to = Append(@, p.sent)]
        ELSE env

(***************************************************************************)
(* Initial state: both servers constructed, no connection accepted.        *)
(***************************************************************************)
Init ==
    /\ pc = [s \in Sess |-> "idle"]
    /\ emails = TEST_EMAILS
    /\ next_id = Len(TEST_EMAILS) + 1
    /\ authenticated = [s \in ISess |-> FALSE]
    /\ selected_folder = [s \in ISess |-> None]
    /\ received_emails = <<>>
    /\ mail_from = [s \in SSess |-> None]
    /\ rcpt_to = [s \in SSess |-> <<>>]
    /\ data_mode = [s \in SSess |-> FALSE]
    /\ email_data = [s \in SSess |-> <<>>]
    /\ lastData = [s \in Sess |-> NoRead]
    /\ lastOut = [s \in Sess |-> <<>>]
    /\ appended = [s \in SSess |-> <<>>]
    /\ first_out = [s \in Sess |-> None]
    /\ greetings = [s \in Sess |-> 0]
    /\ closed_by = [s \in Sess |-> "open"]
    /\ nlines = [s \in Sess |-> 0]
    /\ client = [s \in SSess |-> NoEnvelope]
    /\ submitted = [s \in SSess |-> <<>>]
    /\ issued = [s \in ISess |-> {}]

Greeting(s) ==
    IF s \in ISess THEN IMAP_GREETING ELSE SMTP_GREETING

\* The session's sends of this step, as the client sees them.
Observe(s, data, sent) ==
    /\ lastData' = [lastData EXCEPT ![s] = data]
    /\ lastOut' = [lastOut EXCEPT ![s] = sent]
    /\ first_out' = [first_out EXCEPT ![s] =
                        IF @ = None /\ sent # <<>> THEN Some(sent[1]) ELSE @]
    /\ greetings' = [greetings EXCEPT ![s] =
                        @ + Cardinality({i \in DOMAIN sent : sent[i] = Greeting(s)})]

ImapUnchanged ==
    UNCHANGED <<emails, next_id, authenticated, selected_folder, issued>>

SmtpUnchanged ==
    UNCHANGED <<received_emails, mail_from, rcpt_to, data_mode, email_data,
                appended, client, submitted>>

(***************************************************************************)
(* The acceptors: accept a connection and start its handler thread.        *)
(***************************************************************************)
Accept(s) ==
    /\ pc[s] = "idle"
    /\ pc' = [pc EXCEPT ![s] = "greet"]
    /\ UNCHANGED <<lastData, lastOut, first_out, greetings, closed_by, nlines>>
    /\ ImapUnchanged
    /\ SmtpUnchanged

(***************************************************************************)
(* The handlers' first statements: the greeting and the locals.  A send    *)
(* may raise: the except clause is taken and the connection is closed.     *)
(***************************************************************************)
\* The handler starting without a greeting.
ImapGreetingSends_None ==
    <<>>

ImapGreetingSends ==
    << IMAP_GREETING >>

\* The handler keeping authenticated and selected_folder on the server
\* object: a new connection resets them for every session.
ImapGreet_SharedLocals(s) ==
    /\ pc[s] = "greet"
    /\ \E ok \in BOOLEAN :
          /\ pc' = [pc EXCEPT ![s] = IF ok THEN "loop" ELSE "closed"]
          /\ closed_by' = [closed_by EXCEPT ![s] = IF ok THEN @ ELSE "ioerror"]
          /\ Observe(s, lastData[s], IF ok THEN ImapGreetingSends ELSE <<>>)
    /\ authenticated' = [t \in ISess |-> FALSE]
    /\ selected_folder' = [t \in ISess |-> None]
    /\ UNCHANGED <<emails, next_id, nlines, issued>>
    /\ SmtpUnchanged

ImapGreet(s) ==
    /\ pc[s] = "greet"
    /\ \E ok \in BOOLEAN :
          /\ pc' = [pc EXCEPT ![s] = IF ok THEN "loop" ELSE "closed"]
          /\ closed_by' = [closed_by EXCEPT ![s] = IF ok THEN @ ELSE "ioerror"]
          /\ Observe(s, lastData[s], IF ok THEN ImapGreetingSends ELSE <<>>)
    /\ authenticated' = [authenticated EXCEPT ![s] = FALSE]
    /\ selected_folder' = [selected_folder EXCEPT ![s] = None]
    /\ UNCHANGED <<emails, next_id, nlines, issued>>
    /\ SmtpUnchanged

SmtpGreetingSends ==
    << SMTP_GREETING >>

SmtpGreet(s) ==
    /\ pc[s] = "greet"
    /\ \E ok \in BOOLEAN :
          /\ pc' = [pc EXCEPT ![s] = IF ok THEN "loop" ELSE "closed"]
          /\ closed_by' = [closed_by EXCEPT ![s] = IF ok THEN @ ELSE "ioerror"]
          /\ Observe(s, lastData[s], IF ok THEN SmtpGreetingSends ELSE <<>>)
    /\ mail_from' = [mail_from EXCEPT ![s] = None]
    /\ rcpt_to' = [rcpt_to EXCEPT ![s] = <<>>]
    /\ data_mode' = [data_mode EXCEPT ![s] = FALSE]
    /\ email_data' = [email_data EXCEPT ![s] = <<>>]
    /\ UNCHANGED <<received_emails, appended, nlines, client, submitted>>
    /\ ImapUnchanged

(***************************************************************************)
(* One iteration of the IMAP loop: n of its sends go out, and the next one *)
(* raises when n is less than their number.  When the handler returns its  *)
(* locals are gone: a closed session holds their initial values.           *)
(***************************************************************************)
ImapRecv(s, reads, cap) ==
    /\ pc[s] = "loop"
    /\ \E data \in reads :
          LET r == ImapIteration(authenticated[s], selected_folder[s], data,
                                 emails, next_id)
          IN  /\ data = EOF \/ nlines[s] < cap
              /\ \E n \in 0..Len(r.sends) :
                 LET failed == n < Len(r.sends)
                     closes == failed \/ r.brk
                 IN  /\ authenticated' = [authenticated EXCEPT ![s] =
                            IF closes THEN FALSE ELSE r.authenticated]
                     /\ selected_folder' = [selected_folder EXCEPT ![s] =
                            IF closes THEN None ELSE r.selected_folder]
                     /\ pc' = [pc EXCEPT ![s] = IF closes THEN "closed" ELSE "loop"]
                     /\ closed_by' = [closed_by EXCEPT ![s] =
                            IF failed THEN "ioerror"
                            ELSE IF r.brk
                            THEN (IF data = EOF THEN "eof" ELSE "logout")
                            ELSE @]
                     /\ nlines' = [nlines EXCEPT ![s] = IF closes THEN 0 ELSE @ + 1]
                     /\ issued' = [issued EXCEPT ![s] =
                            IF closes THEN {}
                            ELSE @ \cup ({ImapParsed[data].command} \cap {"LOGIN", "SELECT"})]
                     /\ Observe(s, data, SubSeq(r.sends, 1, n))
    /\ UNCHANGED <<emails, next_id>>
    /\ SmtpUnchanged

\* recv raises (connection reset).
ImapRecvError(s) ==
    /\ pc[s] = "loop"
    /\ pc' = [pc EXCEPT ![s] = "closed"]
    /\ closed_by' = [closed_by EXCEPT ![s] = "ioerror"]
    /\ Observe(s, RecvRaised, <<>>)
    /\ authenticated' = [authenticated EXCEPT ![s] = FALSE]
    /\ selected_folder' = [selected_folder EXCEPT ![s] = None]
    /\ nlines' = [nlines EXCEPT ![s] = 0]
    /\ issued' = [issued EXCEPT ![s] = {}]
    /\ UNCHANGED <<emails, next_id>>
    /\ SmtpUnchanged

(***************************************************************************)
(* One iteration of the SMTP loop.                                         *)
(***************************************************************************)
\* The new record put in front of the list.
AppendSubmitted_InFront(store, envelopes) ==
    [i \in 1..Len(envelopes) |->
        [from |-> envelopes[i].from, to |-> envelopes[i].to,
         data |-> envelopes[i].data, timestamp |-> NOW]] \o store

\* self.received_emails.append({... 'timestamp': datetime.now().isoformat()})
AppendSubmitted(store, envelopes) ==
    store \o [i \in 1..Len(envelopes) |->
                [from |-> envelopes[i].from, to |-> envelopes[i].to,
                 data |-> envelopes[i].data, timestamp |-> NOW]]

SmtpRecv(s, commands, bodyLines, cap) ==
    /\ pc[s] = "loop"
    /\ \E data \in (IF data_mode[s] THEN bodyLines ELSE commands) :
          LET r == SmtpIteration(mail_from[s], rcpt_to[s], data_mode[s],
                                 email_data[s], data)
          IN  /\ data = EOF \/ nlines[s] < cap
              /\ \E n \in 0..Len(r.sends) :
                 LET failed == n < Len(r.sends)
                     closes == failed \/ r.raises \/ r.brk
                 IN  /\ mail_from' = [mail_from EXCEPT ![s] =
                            IF closes THEN None ELSE r.after.mail_from]
                     /\ rcpt_to' = [rcpt_to EXCEPT ![s] =
                            IF closes THEN <<>> ELSE r.after.rcpt_to]
                     /\ data_mode' = [data_mode EXCEPT ![s] =
                            IF closes THEN FALSE ELSE r.after.data_mode]
                     /\ email_data' = [email_data EXCEPT ![s] =
                            IF closes THEN <<>> ELSE r.after.email_data]
                     /\ received_emails' = AppendSubmitted(received_emails, r.record)
                     /\ appended' = [appended EXCEPT ![s] =
                            SubSeq(received_emails', Len(received_emails) + 1,
                                   Len(received_emails'))]
                     /\ pc' = [pc EXCEPT ![s] = IF closes THEN "closed" ELSE "loop"]
                     /\ closed_by' = [closed_by EXCEPT ![s] =
                            IF failed THEN "ioerror"
                            ELSE IF r.raises THEN "exception"
                            ELSE IF r.brk
                            THEN (IF data = EOF THEN "eof" ELSE "quit")
                            ELSE @]
                     /\ Observe(s, data, SubSeq(r.sends, 1, n))
                     /\ nlines' = [nlines EXCEPT ![s] = IF closes THEN 0 ELSE @ + 1]
                     /\ client' = [client EXCEPT ![s] =
                            IF closes THEN NoEnvelope
                            ELSE ClientEnvelope(@, data_mode[s], data)]
                     /\ submitted' = [submitted EXCEPT ![s] =
                            IF data # EOF /\ data_mode[s] /\ SmtpParsed[data].terminator
                            THEN Append(@, client[s]) ELSE @]
    /\ ImapUnchanged

\* A raised error that ends every SMTP session of the server.
SmtpRecvError_ClosesAll(s) ==
    /\ pc[s] = "loop"
    /\ pc' = [t \in Sess |-> IF t \in SSess THEN "closed" ELSE pc[t]]
    /\ closed_by' = [closed_by EXCEPT ![s] = "ioerror"]
    /\ Observe(s, RecvRaised, <<>>)
    /\ mail_from' = [mail_from EXCEPT ![s] = None]
    /\ rcpt_to' = [rcpt_to EXCEPT ![s] = <<>>]
    /\ data_mode' = [data_mode EXCEPT ![s] = FALSE]
    /\ email_data' = [email_data EXCEPT ![s] = <<>>]
    /\ appended' = [appended EXCEPT ![s] = <<>>]
    /\ nlines' = [nlines EXCEPT ![s] = 0]
    /\ client' = [client EXCEPT ![s] = NoEnvelope]
    /\ UNCHANGED <<received_emails, submitted>>
    /\ ImapUnchanged

\* recv raises (connection reset).
SmtpRecvError(s) ==
    /\ pc[s] = "loop"
    /\ pc' = [pc EXCEPT ![s] = "closed"]
    /\ closed_by' = [closed_by EXCEPT ![s] = "ioerror"]
    /\ Observe(s, RecvRaised, <<>>)
    /\ mail_from' = [mail_from EXCEPT ![s] = None]
    /\ rcpt_to' = [rcpt_to EXCEPT ![s] = <<>>]
    /\ data_mode' = [data_mode EXCEPT ![s] = FALSE]
    /\ email_data' = [email_data EXCEPT ![s] = <<>>]
    /\ appended' = [appended EXCEPT ![s] = <<>>]
    /\ nlines' = [nlines EXCEPT ![s] = 0]
    /\ client' = [client EXCEPT ![s] = NoEnvelope]
    /\ UNCHANGED <<received_emails, submitted>>
    /\ ImapUnchanged

(***************************************************************************)
(* Specifications.                                                         *)
(***************************************************************************)
\* One IMAP connection.
NextIMAP ==
    \E s \in {"i1"} :
        \/ Accept(s)
        \/ ImapGreet(s)
        \/ ImapRecv(s, ImapReads, MaxLines)
        \/ ImapRecvError(s)

SpecIMAP ==
    Init /\ [][NextIMAP]_vars

\* One SMTP connection.
NextSMTP ==
    \E s \in {"s1"} :
        \/ Accept(s)
        \/ SmtpGreet(s)
        \/ SmtpRecv(s, EnvelopeCommands, EnvelopeBodyLines, MaxLines)
        \/ SmtpRecvError(s)

SpecSMTP ==
    Init /\ [][NextSMTP]_vars

\* One IMAP and one SMTP connection side by side.
Next ==
    \/ \E s \in {"i1"} :
          \/ Accept(s)
          \/ ImapGreet(s)
          \/ ImapRecv(s, ImapReads, MaxLinesBoth)
          \/ ImapRecvError(s)
    \/ \E s \in {"s1"} :
          \/ Accept(s)
          \/ SmtpGreet(s)
          \/ SmtpRecv(s, SmtpCommands, SmtpBodyLines, MaxLinesBoth)
          \/ SmtpRecvError(s)

Spec ==
    Init /\ [][Next]_vars

\* One SMTP connection whose client sends any line.
NextWide ==
    \E s \in {"s1"} :
        \/ Accept(s)
        \/ SmtpGreet(s)
        \/ SmtpRecv(s, SmtpCommands, SmtpBodyLines, MaxLinesWide)
        \/ SmtpRecvError(s)

SpecWide ==
    Init /\ [][NextWide]_vars

\* Two SMTP connections side by side.
NextPair ==
    \E s \in SSess :
        \/ Accept(s)
        \/ SmtpGreet(s)
        \/ SmtpRecv(s, PairCommands(s), PairBodyLines(s), MaxLinesPair)
        \/ SmtpRecvError(s)

SpecPair ==
    Init /\ [][NextPair]_vars

\* Two connections to one server side by side: the clients connect either
\* both to the IMAP server or both to the SMTP server.
NextTwo ==
    \/ \E s \in ISess :
          \/ (\A t \in SSess : pc[t] = "idle") /\ Accept(s)
          \/ ImapGreet(s)
          \/ ImapRecv(s, PairImapReads, MaxLinesTwo)
          \/ ImapRecvError(s)
    \/ \E s \in SSess :
          \/ (\A t \in ISess : pc[t] = "idle") /\ Accept(s)
          \/ SmtpGreet(s)
          \/ SmtpRecv(s, PairCommands(s), PairBodyLines(s), MaxLinesTwo)
          \/ SmtpRecvError(s)

SpecTwo ==
    Init /\ [][NextTwo]_vars

\* An IMAP connection reading the mailbox and an SMTP connection
\* submitting mail, side by side.
NextMixed ==
    \/ \E s \in {"i1"} :
          \/ Accept(s)
          \/ ImapGreet(s)
          \/ ImapRecv(s, MixedImapReads, MaxLinesMixed)
          \/ ImapRecvError(s)
    \/ \E s \in {"s1"} :
          \/ Accept(s)
          \/ SmtpGreet(s)
          \/ SmtpRecv(s, MixedCommands, MixedBodyLines, MaxLinesMixed)
          \/ SmtpRecvError(s)

SpecMixed ==
    Init /\ [][NextMixed]_vars

\* One connection, to either server, whose reads may hold two lines.
NextGrouped ==
    \/ \E s \in {"i1"} :
          \/ pc["s1"] = "idle" /\ Accept(s)
          \/ ImapGreet(s)
          \/ ImapRecv(s, GroupedImapReads, MaxReads)
          \/ ImapRecvError(s)
    \/ \E s \in {"s1"} :
          \/ pc["i1"] = "idle" /\ Accept(s)
          \/ SmtpGreet(s)
          \/ SmtpRecv(s, GroupedCommands, GroupedBodyLines, MaxReads)
          \/ SmtpRecvError(s)

SpecGrouped ==
    Init /\ [][NextGrouped]_vars

(***************************************************************************)
(* Properties.  A step of session s that is one iteration of its loop is   *)
(* Handled(s); the read it handled is lastData'[s] and what it sent is     *)
(* lastOut'[s].  Answered(s) is such a step in which no send or recv       *)
(* raised.                                                                 *)
(***************************************************************************)
Handled(s) ==
    pc[s] = "loop" /\ (pc'[s] = "closed" \/ nlines'[s] = nlines[s] + 1)

Answered(s) ==
    Handled(s) /\ closed_by'[s] # "ioerror"

FetchLines ==
    {I_FETCH_BODY, I_FETCH_FLAGS, I_FETCH_RFC822, I_FETCH_NOARGS}

ImapSame(s) ==
    /\ authenticated'[s] = authenticated[s]
    /\ selected_folder'[s] = selected_folder[s]
    /\ pc'[s] = "loop"

\* C1: a FETCH sends something only if the session is authenticated and has
\* a folder selected; otherwise it sends nothing, leaves authenticated and
\* selected_folder as they were and the session open; a session that has
\* sent no LOGIN gets nothing for a FETCH.
C1_FetchNeedsLoginAndFolder ==
    [][\A s \in ISess :
         (Handled(s) /\ lastData'[s] \in FetchLines) =>
            /\ lastOut'[s] # <<>> => (authenticated[s] /\ selected_folder[s] # None)
            /\ ~(authenticated[s] /\ selected_folder[s] # None) =>
                  (lastOut'[s] = <<>> /\ ImapSame(s))
            /\ "LOGIN" \notin issued[s] => lastOut'[s] = <<>>]_vars

C1_Witness ==
    /\ pc["i1"] = "loop"
    /\ lastData["i1"] = I_FETCH_BODY
    /\ ~authenticated["i1"]
    /\ selected_folder["i1"] = Some("INBOX")
    /\ lastOut["i1"] = <<>>

\* C7: CAPABILITY and LIST are answered in every session state with the
\* fixed capability line, respectively the listing of INBOX, Sent and
\* Drafts, and one tagged OK, the same text every time for the same tag;
\* they change neither the session nor the stores.
C7_CapabilityAndListAreFixed ==
    [][\A s \in ISess :
         Answered(s) =>
            /\ lastData'[s] = I_CAPABILITY =>
                  lastOut'[s] = << "* CAPABILITY IMAP4rev1 AUTH=PLAIN\r\na1 OK CAPABILITY completed\r\n" >>
            /\ lastData'[s] = I_CAPABILITY_LC =>
                  lastOut'[s] = << "* CAPABILITY IMAP4rev1 AUTH=PLAIN\r\nb2 OK CAPABILITY completed\r\n" >>
            /\ lastData'[s] = I_LIST =>
                  lastOut'[s] = << "* LIST (\\HasNoChildren) \"/\" \"INBOX\"\r\n* LIST (\\HasNoChildren) \"/\" \"Sent\"\r\n* LIST (\\HasNoChildren) \"/\" \"Drafts\"\r\na1 OK LIST completed\r\n" >>
            /\ lastData'[s] = I_LIST_LC =>
                  lastOut'[s] = << "* LIST (\\HasNoChildren) \"/\" \"INBOX\"\r\n* LIST (\\HasNoChildren) \"/\" \"Sent\"\r\n* LIST (\\HasNoChildren) \"/\" \"Drafts\"\r\nb2 OK LIST completed\r\n" >>
            /\ lastData'[s] \in {I_CAPABILITY, I_CAPABILITY_LC, I_LIST, I_LIST_LC} =>
                  /\ ImapSame(s)
                  /\ emails' = emails
                  /\ next_id' = next_id
                  /\ received_emails' = received_emails]_vars

C7_Witness ==
    /\ lastData["i1"] = I_LIST_LC
    /\ authenticated["i1"]
    /\ selected_folder["i1"] = Some("INBOX")
    /\ nlines["i1"] >= 3
    /\ lastOut["i1"] # <<>>

\* C8: LOGOUT is answered with an untagged BYE and then a tagged OK, and the
\* session is closed; a closed session reads and sends nothing more.
C8_LogoutClosesForGood ==
    [][\A s \in ISess :
         /\ (Answered(s) /\ lastData'[s] = I_LOGOUT) =>
               /\ lastOut'[s] = << "* BYE Mock IMAP Server logging out\r\na1 OK LOGOUT completed\r\n" >>
               /\ pc'[s] = "closed"
         /\ pc[s] = "closed" =>
               /\ pc'[s] = "closed"
               /\ lastData'[s] = lastData[s]
               /\ lastOut'[s] = lastOut[s]
               /\ nlines'[s] = nlines[s]]_vars

C8_Witness ==
    /\ pc["i1"] = "closed"
    /\ closed_by["i1"] = "logout"
    /\ lastData["i1"] = I_LOGOUT
    /\ lastOut["i1"] # <<>>

\* C9: SEARCH is answered in every session state, whatever its criteria,
\* with the ids of all messages of the list in its order, 1 2 3 4 5, and
\* one tagged OK; SELECT reports as EXISTS the number of ids that SEARCH
\* returns.
C9_SearchReturnsAllIds ==
    [][\A s \in ISess :
         Answered(s) =>
            /\ lastData'[s] = I_SEARCH =>
                  /\ lastOut'[s] = << "* SEARCH 1 2 3 4 5\r\na1 OK SEARCH completed\r\n" >>
                  /\ [i \in 1..Len(emails) |-> emails[i].id] = <<1, 2, 3, 4, 5>>
                  /\ ImapSame(s)
            /\ lastData'[s] = I_SEARCH_BARE =>
                  /\ lastOut'[s] = << "* SEARCH 1 2 3 4 5\r\nb2 OK SEARCH completed\r\n" >>
                  /\ ImapSame(s)
            /\ lastData'[s] = I_SELECT =>
                  /\ lastOut'[s] = << "* 5 EXISTS\r\n* 5 RECENT\r\n* OK [UIDVALIDITY 1] UIDs valid\r\n* OK [UIDNEXT 6] Predicted next UID\r\na1 OK [READ-WRITE] SELECT completed\r\n" >>
                  /\ Len(emails) = 5]_vars

C9_Witness ==
    /\ lastData["i1"] = I_SEARCH
    /\ "SELECT" \in issued["i1"]
    /\ lastOut["i1"] = << "* SEARCH 1 2 3 4 5\r\na1 OK SEARCH completed\r\n" >>

\* The number of whitespace-delimited tokens of a line.
WsTokenCount(line) ==
    Cardinality({i \in 1..Len(line) :
                    ~IsSpace(line[i]) /\ (i = 1 \/ IsSpace(line[i - 1]))})

KnownCommands ==
    {"CAPABILITY", "LOGIN", "LIST", "SELECT", "FETCH", "SEARCH", "LOGOUT"}

C2_OneRecordAsSent ==
    /\ Len(received_emails) = Len(submitted["s1"])
    /\ \A i \in 1..Len(received_emails) :
          /\ received_emails[i].to = submitted["s1"][i].to
          /\ received_emails[i].data = Concat(submitted["s1"][i].body)

\* C3: in data mode a line that is not "." once trimmed is appended to the
\* body as it came, is not answered, stores nothing and leaves the session
\* open and in data mode; a line that is "." once trimmed leaves data mode.
C3_OnlyDotEndsData ==
    [][\A s \in SSess :
         (Handled(s) /\ data_mode[s] /\ lastData'[s] \in AllSmtpReads \ {EOF}) =>
            IF Join(Strip(lastData'[s])) = "."
            THEN closed_by'[s] # "ioerror" => (~data_mode'[s] /\ pc'[s] = "loop")
            ELSE /\ email_data'[s] = Append(email_data[s], Join(lastData'[s]))
                 /\ lastOut'[s] = <<>>
                 /\ received_emails' = received_emails
                 /\ pc'[s] = "loop"
                 /\ data_mode'[s]]_vars

C3_Witness ==
    /\ pc["s1"] = "loop"
    /\ data_mode["s1"]
    /\ email_data["s1"] = << "QUIT\r\n", "\r\n" >>
    /\ lastData["s1"] = S_BLANK
    /\ lastOut["s1"] = <<>>
    /\ received_emails = <<>>

\* The envelope that client s sends when two clients run side by side.
PairEnvelope(s) ==
    IF s = "s1"
    THEN [from |-> Some("<a@x>"), to |-> << "<b@y>" >>, body |-> << "Hi\r\n" >>]
    ELSE [from |-> Some("<d@z>"), to |-> << "<c@y>" >>, body |-> << " yo \r\n" >>]

\* Record r carries the sender, the recipients and the body of envelope e.
Carries(r, e) ==
    r.from = e.from /\ r.to = e.to /\ r.data = Concat(e.body)

\* C4: once each of two concurrent sessions has completed its envelope, the
\* store holds exactly two records, one carrying the sender, recipients and
\* body of each session, and the two records have ids, which differ.
C4_TwoRecordsWithUniqueIds ==
    (submitted["s1"] = << PairEnvelope("s1") >> /\ submitted["s2"] = << PairEnvelope("s2") >>) =>
        /\ Len(received_emails) = 2
        /\ \E i, j \in 1..2 :
              /\ i # j
              /\ Carries(received_emails[i], PairEnvelope("s1"))
              /\ Carries(received_emails[j], PairEnvelope("s2"))
        /\ \A i \in 1..2 : "id" \in DOMAIN received_emails[i]
        /\ received_emails[1].id # received_emails[2].id

\* C5: the first thing a session sends is its greeting, it sends it once,
\* and it reads nothing before it has sent it.
C5_GreetingFirst ==
    \A s \in Sess :
        /\ first_out[s] \in {None, Some(IF s \in ISess
                                        THEN "* OK Mock IMAP Server Ready\r\n"
                                        ELSE "220 Mock SMTP Server Ready\r\n")}
        /\ greetings[s] <= 1
        /\ pc[s] = "loop" => (first_out[s] # None /\ greetings[s] = 1)
        /\ (lastData[s] # NoRead \/ nlines[s] > 0 \/ Len(lastOut[s]) > 1) =>
              (first_out[s] # None /\ greetings[s] = 1)

C5_Witness ==
    /\ lastData["i1"] = I_SEARCH
    /\ lastData["s1"] = S_HELO
    /\ lastOut["s1"] = << "250 Mock SMTP Server\r\n" >>
    /\ first_out["i1"] = Some("* OK Mock IMAP Server Ready\r\n")
    /\ first_out["s1"] = Some("220 Mock SMTP Server Ready\r\n")

\* C6: a session is closed only by the client's disconnect, by LOGOUT or
\* QUIT, or by an I/O error: never by the content of another line.
C6_ClosedOnlyByClientOrProtocol ==
    \A s \in Sess :
        pc[s] = "closed" =>
            \/ closed_by[s] = "ioerror"
            \/ closed_by[s] = "eof" /\ lastData[s] = EOF
            \/ closed_by[s] = "logout" /\ lastData[s] = I_LOGOUT
            \/ closed_by[s] = "quit" /\ lastData[s] = S_QUIT

\* Everything the model holds of one session.
Slot(t) ==
    IF t \in ISess
    THEN <<pc[t], closed_by[t], nlines[t], lastData[t], lastOut[t],
           authenticated[t], selected_folder[t]>>
    ELSE <<pc[t], closed_by[t], nlines[t], lastData[t], lastOut[t],
           mail_from[t], rcpt_to[t], data_mode[t], email_data[t]>>

\* A step in which a send or a recv of session s raises.
TransportError(s) ==
    pc[s] # "closed" /\ pc'[s] = "closed" /\ closed_by'[s] = "ioerror"

\* C11: a step in which a send or recv of one session raises closes that
\* session and leaves every other session as it was: open if it was open,
\* with its locals and its place in its loop, and still to be accepted if
\* it was not yet accepted; no stored record is lost or changed.
C11_TransportErrorEndsOneSession ==
    [][\A s \in Sess :
         TransportError(s) =>
            /\ \A t \in Sess \ {s} : Slot(t)' = Slot(t)
            /\ emails' = emails
            /\ Len(received_emails') >= Len(received_emails)
            /\ SubSeq(received_emails', 1, Len(received_emails)) = received_emails]_vars

\* One session was closed by a transport error; the other is open, in data
\* mode with a body line read, and a record is stored.
C11_Witness ==
    /\ pc["s1"] = "closed"
    /\ closed_by["s1"] = "ioerror"
    /\ Len(received_emails) = 1
    /\ pc["s2"] = "loop"
    /\ data_mode["s2"]
    /\ email_data["s2"] = << " yo \r\n" >>

\* Address r is what the handler takes from a line from which the client's
\* own text, after the colon and trimmed, is a.
StoredFor(a, r) ==
    \E d \in AllSmtpReads \ {EOF} :
        ~SmtpParsed[d].nocolon /\ SmtpParsed[d].sent = a /\ SmtpParsed[d].addr = r

\* C12: a terminator is answered with exactly one 250 and leaves the
\* session out of data mode with mail_from unset and rcpt_to and email_data
\* empty; so every record holds a sender only if its own envelope had a
\* MAIL FROM, as many recipients as its own envelope had RCPT TO lines, each
\* taken from that line, and the body lines of its own envelope only.
C12_TerminatorResetsEnvelope ==
    [][\A s \in SSess :
         (Answered(s) /\ data_mode[s] /\ lastData'[s] # EOF /\ IsTerminator(lastData'[s])) =>
            /\ lastOut'[s] = << "250 OK: Message accepted\r\n" >>
            /\ pc'[s] = "loop"
            /\ mail_from'[s] = None
            /\ rcpt_to'[s] = <<>>
            /\ email_data'[s] = <<>>
            /\ ~data_mode'[s]
            /\ Len(received_emails') = Len(submitted'[s])
            /\ \A i \in 1..Len(received_emails') :
                  LET r == received_emails'[i]
                      e == submitted'[s][i]
                  IN  /\ (r.from = None) = (e.from = None)
                      /\ Len(r.to) = Len(e.to)
                      /\ \A k \in 1..Len(r.to) : StoredFor(e.to[k], r.to[k])
                      /\ r.data = Concat(e.body)]_vars

\* A second message of one session: the first had a sender and a recipient,
\* the second has neither and has its own body.
C12_Witness ==
    /\ pc["s1"] = "loop"
    /\ lastOut["s1"] = << "250 OK: Message accepted\r\n" >>
    /\ Len(received_emails) = 2
    /\ received_emails[1].from # None
    /\ received_emails[1].to # <<>>
    /\ received_emails[2].from = None
    /\ received_emails[2].to = <<>>
    /\ received_emails[2].data = " yo \r\n"
    /\ mail_from["s1"] = None
    /\ rcpt_to["s1"] = <<>>

\* C13: a MAIL FROM line with a colon sets mail_from to the client's text
\* after the first colon, trimmed and otherwise as the client sent it,
\* whatever mail_from was, and leaves rcpt_to as it was; a RCPT TO line with
\* a colon appends that text of its own to rcpt_to; each is answered with
\* one 250.
C13_AddressStoredAsSent ==
    [][\A s \in SSess :
         (/\ Answered(s)
          /\ ~data_mode[s]
          /\ lastData'[s] \in AllSmtpReads \ {EOF}
          /\ ~SmtpParsed[lastData'[s]].nocolon) =>
            /\ SmtpParsed[lastData'[s]].verb = "MAIL FROM" =>
                  /\ mail_from'[s] = Some(SmtpParsed[lastData'[s]].sent)
                  /\ rcpt_to'[s] = rcpt_to[s]
                  /\ lastOut'[s] = << "250 OK\r\n" >>
            /\ SmtpParsed[lastData'[s]].verb = "RCPT TO" =>
                  /\ rcpt_to'[s] = Append(rcpt_to[s], SmtpParsed[lastData'[s]].sent)
                  /\ mail_from'[s] = mail_from[s]
                  /\ lastOut'[s] = << "250 OK\r\n" >>]_vars

\* The RFC822 text of a message: its headers, each line ending in CRLF, a
\* blank line, and its body ending in CRLF.
Rendered(m) ==
    "From: " \o m.from \o "\r\n"
    \o "To: " \o m.to \o "\r\n"
    \o "Subject: " \o m.subject \o "\r\n"
    \o "Date: " \o m.date \o "\r\n"
    \o "Message-ID: <" \o ToString(m.id) \o "@mock.example.com>\r\n"
    \o "In-Reply-To: <" \o m.thread_id \o "@mock.example.com>\r\n"
    \o "\r\n"
    \o m.body \o "\r\n"

\* C14: a FETCH whose arguments contain BODY or RFC822 sends, for each
\* message, a line whose literal declares a number n and is followed by the
\* message's RFC822 text, whose length is n: 282, 249, 243, 211 and 254
\* for the five messages.
C14_LiteralLengthIsTextLength ==
    [][\A s \in ISess :
         (/\ Answered(s)
          /\ lastData'[s] \in {I_FETCH_BODY, I_FETCH_RFC822}
          /\ lastOut'[s] # <<>>) =>
            /\ Len(lastOut'[s]) = Len(emails) + 1
            /\ \A i \in 1..Len(emails) :
                  \E n \in 0..400 :
                     /\ lastOut'[s][i] =
                           "* " \o ToString(emails[i].id) \o " FETCH (RFC822 {"
                           \o ToString(n) \o "}\r\n" \o Rendered(emails[i])
                           \o (IF lastData'[s] = I_FETCH_RFC822
                               THEN "FLAGS (\\Seen) " ELSE "")
                           \o ")\r\n"
                     /\ n = Len(Rendered(emails[i]))
                     /\ n = <<282, 249, 243, 211, 254>>[i]]_vars

C14_Witness ==
    /\ lastData["i1"] = I_FETCH_RFC822
    /\ Len(lastOut["i1"]) = 6
    /\ lastOut["i1"][4] =
          "* 4 FETCH (RFC822 {211}\r\n" \o Rendered(emails[4]) \o "FLAGS (\\Seen) )\r\n"

\* The trimmed line begins, in any case, with the verb.
BeginsWith(data, verb) ==
    StartsWith(Upper(Strip(data)), verb)

\* C15: outside data mode a line that begins, in any case, with HELO or
\* EHLO gets 250; with MAIL FROM or RCPT TO gets 250 and sets the sender,
\* respectively adds a recipient; with DATA gets 354 and enters data mode;
\* with QUIT gets 221 and closes the session; a line that begins with none
\* of them gets 500 and changes nothing.
C15_DispatchByPrefix ==
    [][\A s \in SSess :
         (Answered(s) /\ ~data_mode[s] /\ lastData'[s] \in AllSmtpReads \ {EOF}) =>
            LET data == lastData'[s]
                same == /\ mail_from'[s] = mail_from[s]
                        /\ rcpt_to'[s] = rcpt_to[s]
                        /\ email_data'[s] = email_data[s]
                        /\ received_emails' = received_emails
            IN  IF BeginsWith(data, "HELO") \/ BeginsWith(data, "EHLO")
                THEN lastOut'[s] = << "250 Mock SMTP Server\r\n" >>
                     /\ same /\ ~data_mode'[s] /\ pc'[s] = "loop"
                ELSE IF BeginsWith(data, "MAIL FROM")
                THEN lastOut'[s] = << "250 OK\r\n" >>
                     /\ mail_from'[s] # None /\ rcpt_to'[s] = rcpt_to[s]
                     /\ ~data_mode'[s] /\ pc'[s] = "loop"
                ELSE IF BeginsWith(data, "RCPT TO")
                THEN lastOut'[s] = << "250 OK\r\n" >>
                     /\ Len(rcpt_to'[s]) = Len(rcpt_to[s]) + 1
                     /\ mail_from'[s] = mail_from[s]
                     /\ ~data_mode'[s] /\ pc'[s] = "loop"
                ELSE IF BeginsWith(data, "DATA")
                THEN lastOut'[s] = << "354 Start mail input; end with <CRLF>.<CRLF>\r\n" >>
                     /\ same /\ data_mode'[s] /\ pc'[s] = "loop"
                ELSE IF BeginsWith(data, "QUIT")
                THEN lastOut'[s] = << "221 Bye\r\n" >>
                     /\ received_emails' = received_emails
                     /\ pc'[s] = "closed" /\ closed_by'[s] = "quit"
                ELSE lastOut'[s] = << "500 Command not recognized\r\n" >>
                     /\ same /\ ~data_mode'[s] /\ pc'[s] = "loop"]_vars

\* The newline-terminated lines of a read.
RECURSIVE Lines(_)
Lines(data) ==
    IF data = <<>> THEN <<>>
    ELSE IF IndexOf(data, "\n") = 0 THEN <<data>>
    ELSE <<SubSeq(data, 1, IndexOf(data, "\n"))>>
         \o Lines(SubSeq(data, IndexOf(data, "\n") + 1, Len(data)))

\* The IMAP handler given the lines in reads of their own, one after the
\* other: its locals in the end and all it sends.
RECURSIVE ImapPerLine(_, _, _)
ImapPerLine(auth, folder, lines) ==
    IF lines = <<>>
    THEN [authenticated |-> auth, selected_folder |-> folder, sends |-> <<>>]
    ELSE LET r == ImapIteration(auth, folder, lines[1], emails, next_id)
             rest == ImapPerLine(r.authenticated, r.selected_folder, Tail(lines))
         IN  [rest EXCEPT !.sends = r.sends \o @]

\* The SMTP handler given the lines in reads of their own: its locals in
\* the end, all it sends and the envelopes it stores.
RECURSIVE SmtpPerLine(_, _, _, _, _)
SmtpPerLine(mf, rt, dm, ed, lines) ==
    IF lines = <<>>
    THEN [after |-> [mail_from |-> mf, rcpt_to |-> rt, data_mode |-> dm,
                     email_data |-> ed],
          sends |-> <<>>, record |-> <<>>]
    ELSE LET r == SmtpIteration(mf, rt, dm, ed, lines[1])
             rest == SmtpPerLine(r.after.mail_from, r.after.rcpt_to,
                                 r.after.data_mode, r.after.email_data, Tail(lines))
         IN  [after |-> rest.after, sends |-> r.sends \o rest.sends,
              record |-> r.record \o rest.record]

\* C16: a read of several lines is handled as the same lines read one by
\* one are: the same state after it, the same text sent, the same records
\* stored.
C16_GroupingOfLinesIsIrrelevant ==
    [][/\ \A s \in ISess :
            (Answered(s) /\ lastData'[s] \in GroupedImapReads \ {EOF}) =>
               LET r == ImapPerLine(authenticated[s], selected_folder[s],
                                    Lines(lastData'[s]))
               IN  /\ authenticated'[s] = r.authenticated
                   /\ selected_folder'[s] = r.selected_folder
                   /\ Concat(lastOut'[s]) = Concat(r.sends)
       /\ \A s \in SSess :
            (/\ Answered(s)
             /\ lastData'[s] \in (GroupedCommands \cup GroupedBodyLines) \ {EOF}) =>
               LET r == SmtpPerLine(mail_from[s], rcpt_to[s], data_mode[s],
                                    email_data[s], Lines(lastData'[s]))
               IN  /\ mail_from'[s] = r.after.mail_from
                   /\ rcpt_to'[s] = r.after.rcpt_to
                   /\ data_mode'[s] = r.after.data_mode
                   /\ email_data'[s] = r.after.email_data
                   /\ Concat(lastOut'[s]) = Concat(r.sends)
                   /\ Len(appended'[s]) = Len(r.record)
                   /\ \A i \in 1..Len(r.record) :
                         /\ appended'[s][i].from = r.record[i].from
                         /\ appended'[s][i].to = r.record[i].to
                         /\ appended'[s][i].data = r.record[i].data]_vars

\* C17: no step of any session removes a record from received_emails,
\* moves it, or changes its from, to or data.
C17_StoreIsAppendOnly ==
    [][/\ Len(received_emails') >= Len(received_emails)
       /\ \A i \in 1..Len(received_emails) :
             /\ received_emails'[i].from = received_emails[i].from
             /\ received_emails'[i].to = received_emails[i].to
             /\ received_emails'[i].data = received_emails[i].data]_vars

\* Two records stored, one by each session, the first without recipients;
\* the session that sent it has since sent a RCPT TO.
C17_Witness ==
    /\ Len(received_emails) = 2
    /\ received_emails[1].to = <<>>
    /\ received_emails[1].data = ""
    /\ received_emails[2].data = " yo \r\n"
    /\ lastData["s1"] = S_RCPT_B
    /\ rcpt_to["s1"] = << "<B@Y>" >>

\* The locals of a session's handler.
Locals(t) ==
    IF t \in ISess
    THEN <<authenticated[t], selected_folder[t]>>
    ELSE <<mail_from[t], rcpt_to[t], data_mode[t], email_data[t]>>

\* C18: a step of one session changes neither the locals of another
\* session nor what that session has been sent; what a session is sent for
\* a line and its locals after it are those that its own locals and the
\* line give.  So a FETCH is answered only in a session that has itself
\* sent LOGIN and SELECT, and a session enters data mode only by a DATA of
\* its own.
C18_SessionStateIsPrivate ==
    [][/\ \A a, b \in Sess :
            (a # b /\ Slot(a)' # Slot(a)) =>
               (Locals(b)' = Locals(b) /\ lastOut'[b] = lastOut[b] /\ pc'[b] = pc[b])
       /\ \A b \in ISess :
            (Answered(b) /\ pc'[b] = "loop") =>
               LET r == ImapIteration(authenticated[b], selected_folder[b],
                                      lastData'[b], TEST_EMAILS, Len(TEST_EMAILS) + 1)
               IN  /\ lastOut'[b] = r.sends
                   /\ Locals(b)' = <<r.authenticated, r.selected_folder>>
                   /\ (lastData'[b] = I_FETCH_FLAGS /\ lastOut'[b] # <<>>) =>
                         {"LOGIN", "SELECT"} \subseteq issued[b]
       /\ \A b \in SSess :
            /\ (Answered(b) /\ pc'[b] = "loop") =>
                  LET r == SmtpIteration(mail_from[b], rcpt_to[b], data_mode[b],
                                         email_data[b], lastData'[b])
                  IN  /\ lastOut'[b] = r.sends
                      /\ Locals(b)' = <<r.after.mail_from, r.after.rcpt_to,
                                        r.after.data_mode, r.after.email_data>>
            /\ (data_mode'[b] /\ ~data_mode[b]) =>
                  (Handled(b) /\ lastData'[b] = S_DATA)]_vars

\* One session has logged in and selected; the other, which has not, has
\* sent a FETCH and got nothing.
C18_Witness ==
    /\ pc["i1"] = "loop"
    /\ authenticated["i1"]
    /\ selected_folder["i1"] = Some("INBOX")
    /\ pc["i2"] = "loop"
    /\ ~authenticated["i2"]
    /\ lastData["i2"] = I_FETCH_FLAGS
    /\ lastOut["i2"] = <<>>

\* C19: while a session is open, authenticated is true exactly if the
\* session has handled a LOGIN and selected_folder is INBOX exactly if it
\* has handled a SELECT, in whatever order; no line it handles takes
\* either back; a FETCH is answered exactly if both have been handled.
C19_LoginAndSelectAreKept ==
    [][\A s \in ISess :
         /\ pc[s] = "loop" =>
               /\ authenticated[s] = ("LOGIN" \in issued[s])
               /\ (selected_folder[s] = Some("INBOX")) = ("SELECT" \in issued[s])
               /\ selected_folder[s] \in {None, Some("INBOX")}
         /\ (Handled(s) /\ pc'[s] = "loop") =>
               /\ authenticated[s] => authenticated'[s]
               /\ selected_folder[s] # None => selected_folder'[s] = selected_folder[s]
         /\ (Answered(s) /\ lastData'[s] \in FetchLines) =>
               (lastOut'[s] # <<>>) = ({"LOGIN", "SELECT"} \subseteq issued[s])]_vars

\* Four lines handled, LOGIN and SELECT among them, the last a FETCH, which
\* is answered.
C19_Witness ==
    /\ pc["i1"] = "loop"
    /\ nlines["i1"] = 4
    /\ issued["i1"] = {"LOGIN", "SELECT"}
    /\ authenticated["i1"]
    /\ selected_folder["i1"] = Some("INBOX")
    /\ lastData["i1"] = I_FETCH_NOARGS
    /\ lastOut["i1"] = << "* 1 FETCH ()\r\n", "* 2 FETCH ()\r\n", "* 3 FETCH ()\r\n",
                          "* 4 FETCH ()\r\n", "* 5 FETCH ()\r\n",
                          "a1 OK FETCH completed\r\n" >>

\* C20: emails and next_id stay as constructed whatever is submitted over
\* SMTP; SELECT reports 5 EXISTS and UIDNEXT 6, SEARCH the ids 1 2 3 4 5,
\* and a FETCH that is answered the five pre-populated messages and
\* nothing else.
C20_MailboxNeverChanges ==
    [][/\ emails = TEST_EMAILS /\ emails' = emails
       /\ next_id = 6 /\ next_id' = next_id
       /\ \A s \in ISess :
            Answered(s) =>
               /\ lastData'[s] = I_SELECT =>
                     lastOut'[s] = << "* 5 EXISTS\r\n* 5 RECENT\r\n* OK [UIDVALIDITY 1] UIDs valid\r\n* OK [UIDNEXT 6] Predicted next UID\r\na1 OK [READ-WRITE] SELECT completed\r\n" >>
               /\ lastData'[s] = I_SEARCH =>
                     lastOut'[s] = << "* SEARCH 1 2 3 4 5\r\na1 OK SEARCH completed\r\n" >>
               /\ (lastData'[s] = I_FETCH_BODY /\ lastOut'[s] # <<>>) =>
                     /\ Len(lastOut'[s]) = 6
                     /\ \A i \in 1..5 :
                           lastOut'[s][i] =
                              "* " \o ToString(i) \o " FETCH (RFC822 {"
                              \o ToString(Len(Rendered(TEST_EMAILS[i]))) \o "}\r\n"
                              \o Rendered(TEST_EMAILS[i]) \o ")\r\n"
                     /\ lastOut'[s][6] = "a1 OK FETCH completed\r\n"]_vars

\* A message has been submitted over SMTP, and a FETCH is answered with
\* the five pre-populated messages.
C20_Witness ==
    /\ Len(received_emails) = 1
    /\ received_emails[1].data = "Hi\r\n"
    /\ lastData["i1"] = I_FETCH_BODY
    /\ Len(lastOut["i1"]) = 6
    /\ Len(emails) = 5

=============================================================================
